---- MODULE Spec2Model ----
(***************************************************************************)
(* The evaluate loop driver of torchtnt (torchtnt/runner/evaluate.py) and  *)
(* the fit orchestration that calls it (exercised by                       *)
(* tests/runner/test_fit.py), as a state machine.                          *)
(*                                                                         *)
(* One run = one call: evaluate(), fit(), or _evaluate_impl called with a  *)
(* State restored mid-epoch.  The arguments of the                         *)
(* call are the record cfg, chosen in Init.  User code (the unit's hooks   *)
(* and step functions, the callbacks) is nondeterministic: every           *)
(* invocation may return, may call state.stop() and return, or may raise.  *)
(***************************************************************************)
EXTENDS Integers, Sequences, FiniteSets, TLC

\* ------------------------------------------------------------------ bounds
MaxEvalLen == 2       \* batches in the eval dataloader: 0..MaxEvalLen
MaxTrainLen == 2      \* batches in the train dataloader: 0..MaxTrainLen
MaxEpochs == 2        \* fit's max_epochs: 1..MaxEpochs
MaxCap == 1           \* explicit max_*_steps_per_epoch: 0..MaxCap (or None)
MaxEvery == 2         \* evaluate_every_n_epochs / _steps: 0..MaxEvery (or None)
NumCallbacks == 2     \* callbacks registered, in registration order 1..NumCallbacks
MaxConsume == 2       \* batches an iterator-taking step may draw in one step
MaxResume == 1        \* steps already completed in the epoch at a resume: 1..MaxResume

\* Optional[int] = None
None == 0 - 1
\* a keyword argument the caller did not pass
Unset == 0 - 2

\* The unit of the tests tracks one module (self.module).
Modules == {"module"}

Callbacks == 1..NumCallbacks
\* participant 0 of a hook is the unit itself, 1..NumCallbacks the callbacks
UNIT == 0

VARIABLES
    cfg,               \* the entry point and its arguments
    pc,                \* position of the running driver
    ret,               \* who called _evaluate_impl: "entry" (evaluate()),
                       \* "caller" (a direct call), "train_step", "train_epoch"
    should_stop,       \* State.should_stop
    train_progress,    \* state.train_state.progress
    eval_progress,     \* state.eval_state.progress
    train_step_output, \* state.train_state._step_output
    eval_step_output,  \* state.eval_state._step_output
    training,          \* module -> its .training flag
    prior_module_train_states, \* saved by _evaluate_impl
    train_prior_states,        \* saved by the train driver
    eval_iter,         \* batches drawn from data_iter of the running eval epoch
    train_iter,        \* batches drawn from the running train epoch's iterator
    prev_steps_in_epoch,
    error,             \* the exception in flight / raised to the caller
    result,            \* "running", "returned" (a State), "raised"
    calls,             \* hook invocations of the current evaluate call, in order
    obs                \* observations of the run (counters used to state properties)

vars == <<cfg, pc, ret, should_stop, train_progress, eval_progress,
          train_step_output, eval_step_output, training,
          prior_module_train_states, train_prior_states, eval_iter, train_iter,
          prev_steps_in_epoch, error, result, calls, obs>>


\* ------------------------------------------------------------ Progress
Progress0 ==
    [num_steps_completed |-> 0,
     num_steps_completed_in_epoch |-> 0,
     num_epochs_completed |-> 0]

\* (mutant) a step counted in the epoch only
increment_step_InEpochOnly(p) ==
    [p EXCEPT !.num_steps_completed_in_epoch = @ + 1]

increment_step(p) ==
    [p EXCEPT !.num_steps_completed = @ + 1,
              !.num_steps_completed_in_epoch = @ + 1]

increment_epoch(p) ==
    [p EXCEPT !.num_epochs_completed = @ + 1,
              !.num_steps_completed_in_epoch = 0]

\* _is_epoch_done(progress, max_steps_per_epoch, max_steps)
is_epoch_done(p, max_steps_per_epoch, max_steps) ==
    \/ (max_steps # None /\ p.num_steps_completed >= max_steps)
    \/ (max_steps_per_epoch # None
        /\ p.num_steps_completed_in_epoch >= max_steps_per_epoch)

\* PhaseState.max_steps of the eval phase: evaluate() builds the PhaseState
\* from dataloader and max_steps_per_epoch only.
eval_max_steps == None

\* ------------------------------------------------------------ user code
\* What one dispatch of a hook does.  Participants first..NumCallbacks are
\* invoked in order (UNIT = 0 is the unit's own method).  Either all of them
\* return (and one of them may have called state.stop()), or participant
\* `at` raises and the later ones are never invoked.
Raises == {"Exception", "StopIteration"}

\* cfg.user_code bounds the behaviours explored for a run: "returns" is user
\* code whose hooks and steps always return and whose steps may call
\* state.stop(); "any" is user code in which every hook, callback and step
\* may also call state.stop() or raise.
Outcomes(first) ==
    {o \in [kind : {"ok"}, at : {NumCallbacks}, stop : BOOLEAN]
           \cup [kind : Raises, at : first..NumCallbacks, stop : {FALSE}] :
        (o.kind # "ok" \/ o.stop) => cfg.user_code = "any"}

\* a step function: returns, calls stop() and returns, or raises
StepOutcomes ==
    {o \in [kind : {"ok"}, at : {UNIT}, stop : BOOLEAN]
           \cup [kind : Raises, at : {UNIT}, stop : {FALSE}] :
        o.kind # "ok" => cfg.user_code = "any"}

\* _run_callback_fn / the unit's method: the invocations made, in order
Invoked(hook, first, o) ==
    [i \in 1..(o.at - first + 1) |-> <<hook, first + i - 1>>]

\* State.stop()
Stopped(o) == should_stop \/ o.stop

NoteStop(ob, o, phase, by, p) ==
    IF o.stop /\ ~should_stop
    THEN [ob EXCEPT !.stop_phase = phase,
                    !.stop_by = by,
                    !.stop_epoch = p.num_epochs_completed + 1,
                    !.stop_step = p.num_steps_completed_in_epoch + 1]
    ELSE ob

\* user code raised `kind`
NoteError(ob, kind) ==
    [ob EXCEPT !.user_error = IF @ = "none" THEN kind ELSE @,
               !.last_error = kind]

Obs0 ==
    [train_step_calls |-> 0,   \* train_step invocations of the run
     eval_step_calls |-> 0,    \* eval_step invocations of the run
     pulls |-> 0,              \* successful next(data_iter) of this eval call
     iters |-> 0,              \* iter(dataloader) calls of this eval call
     step_raised |-> "none",   \* the error eval_step raised in this eval call
     drawn |-> 0,              \* batches the eval iterator yielded in the run
     stop_phase |-> "none",    \* where stop() was first called
     stop_by |-> "none",       \* by a "step" function or by a "hook"
     stop_epoch |-> 0,
     stop_step |-> 0,
     user_error |-> "none",    \* the exception user code raised first, if any
     last_error |-> "none",    \* the exception user code raised last, if any
     entered_stopped |-> FALSE,\* should_stop at entry of this eval call
     eval_exit |-> "none",     \* how the last _evaluate_impl call ended
     eval_calls |-> 0,         \* _evaluate_impl calls of the run
     epochs_at_entry |-> 0,    \* eval num_epochs_completed at entry of this call
     steps_at_entry |-> 0,     \* eval num_steps_completed at entry of this call
     in_epoch_at_entry |-> 0,  \* eval num_steps_completed_in_epoch at entry
     train_at_entry |-> <<Progress0, "None">>, \* train progress and step
                               \* output at entry of this eval call
     warned |-> FALSE,         \* "No steps completed during evaluate epoch!"
     train_step_end_calls |-> 0,  \* on_train_step_end dispatches of the run
     train_epoch_end_calls |-> 0, \* on_train_epoch_end dispatches of the run
     last_epoch_steps |-> 0]   \* steps of the train epoch that ended last


\* ------------------------------------------------------------ modules
\* _set_module_training_mode(tracked_modules, False): every tracked module
\* is switched to eval mode; the prior flags are returned.
set_module_training_mode(mode) == [m \in Modules |-> mode]

\* _reset_module_training_mode(tracked_modules, prior_module_train_states)
reset_module_training_mode(prior) == [m \in Modules |-> prior[m]]

\* ------------------------------------------------------------ evaluate
\* (mutant) the driver takes the train phase for its own
eval_state_Train == "train"

\* eval_state = state.eval_state: the phase state the driver works on
eval_state == "eval"

\* phase.progress is assigned q
SetProgress(phase, q) ==
    IF phase = "eval"
    THEN eval_progress' = q /\ UNCHANGED train_progress
    ELSE train_progress' = q /\ UNCHANGED eval_progress

\* phase._step_output is assigned v
SetStepOutput(phase, v) ==
    IF phase = "eval"
    THEN eval_step_output' = v /\ UNCHANGED train_step_output
    ELSE train_step_output' = v /\ UNCHANGED eval_step_output

\* an exception leaves _evaluate_impl: nothing in it catches or cleans up.
\* Standalone, evaluate()'s except clause is next; inside fit the exception
\* first unwinds the train driver.
EvalRaise(kind, ob) ==
    /\ error' = kind
    /\ pc' = IF ret = "entry" THEN "on_exception"
             ELSE IF ret = "caller" THEN "propagate"
             ELSE "train_unwind"
    /\ obs' = [ob EXCEPT !.eval_exit = "raised"]

\* evaluate(): build the State, call _evaluate_impl
Evaluate ==
    /\ pc = "start"
    /\ cfg.entry_point = "EVALUATE"
    /\ pc' = "eval_enter"
    /\ ret' = "entry"
    /\ UNCHANGED <<cfg, should_stop, train_progress, eval_progress,
                   train_step_output, eval_step_output, training,
                   prior_module_train_states, train_prior_states, eval_iter,
                   train_iter, prev_steps_in_epoch, error, result, calls, obs>>

\* _evaluate_impl(state, eval_unit, callbacks) called with a State whose
\* eval phase was restored mid-epoch (cfg.resume steps into the epoch)
EvaluateImpl ==
    /\ pc = "start"
    /\ cfg.entry_point = "EVALUATE_IMPL"
    /\ pc' = "eval_enter"
    /\ ret' = "caller"
    /\ UNCHANGED <<cfg, should_stop, train_progress, eval_progress,
                   train_step_output, eval_step_output, training,
                   prior_module_train_states, train_prior_states, eval_iter,
                   train_iter, prev_steps_in_epoch, error, result, calls, obs>>

\* an exception out of a direct call of _evaluate_impl reaches its caller:
\* there is no handler in _evaluate_impl
EvaluateImplRaised ==
    /\ pc = "propagate"
    /\ result' = "raised"
    /\ pc' = "done"
    /\ UNCHANGED <<cfg, ret, should_stop, train_progress, eval_progress,
                   train_step_output, eval_step_output, training,
                   prior_module_train_states, train_prior_states, eval_iter,
                   train_iter, prev_steps_in_epoch, error, calls, obs>>

\* _evaluate_impl: input validation, modules to eval mode
EvalEnter ==
    /\ pc = "eval_enter"
    /\ prior_module_train_states' = training
    /\ training' = set_module_training_mode(FALSE)
    /\ calls' = << >>
    /\ obs' = [obs EXCEPT !.entered_stopped = should_stop,
                          !.pulls = 0,
                          !.iters = 0,
                          !.step_raised = "none",
                          !.eval_exit = "none",
                          !.eval_calls = @ + 1,
                          !.epochs_at_entry = eval_progress.num_epochs_completed,
                          !.steps_at_entry = eval_progress.num_steps_completed,
                          !.in_epoch_at_entry =
                              eval_progress.num_steps_completed_in_epoch,
                          !.train_at_entry =
                              <<train_progress, train_step_output>>,
                          !.warned = FALSE]
    /\ pc' = "on_eval_start"
    /\ UNCHANGED <<cfg, ret, should_stop, train_progress, eval_progress,
                   train_step_output, eval_step_output, train_prior_states,
                   eval_iter, train_iter, prev_steps_in_epoch, error, result>>

\* eval_unit.on_eval_start(state); callbacks' on_eval_start
EvalOnStart ==
    /\ pc = "on_eval_start"
    /\ \E o \in Outcomes(UNIT) :
        /\ calls' = calls \o Invoked("on_eval_start", UNIT, o)
        /\ should_stop' = Stopped(o)
        /\ IF o.kind = "ok"
           THEN /\ pc' = "on_eval_epoch_start"
                /\ obs' = NoteStop(obs, o, "eval", "hook", eval_progress)
                /\ error' = error
           ELSE EvalRaise(o.kind, NoteError(obs, o.kind))
    /\ UNCHANGED <<cfg, ret, train_progress, eval_progress, train_step_output,
                   eval_step_output, training, prior_module_train_states,
                   train_prior_states, eval_iter, train_iter,
                   prev_steps_in_epoch, result>>

\* (mutant) the epoch-start hooks run in every call
RunsEpochStart_Always(p) == TRUE

\* whether the epoch-start hooks run: not when resuming mid-epoch
RunsEpochStart(p) == p.num_steps_completed_in_epoch = 0

\* on_eval_epoch_start (unit, callbacks) unless resuming mid-epoch; then
\* data_iter = iter(dataloader), prev_steps_in_epoch
EvalOnEpochStart ==
    /\ pc = "on_eval_epoch_start"
    /\ \E o \in Outcomes(UNIT) :
        IF RunsEpochStart(eval_progress)
        THEN /\ calls' = calls \o Invoked("on_eval_epoch_start", UNIT, o)
             /\ should_stop' = Stopped(o)
             /\ IF o.kind = "ok"
                THEN /\ pc' = "eval_loop"
                     /\ obs' = [NoteStop(obs, o, "eval", "hook", eval_progress)
                                   EXCEPT !.iters = @ + 1]
                     /\ error' = error
                ELSE EvalRaise(o.kind, NoteError(obs, o.kind))
        ELSE /\ o.kind = "ok" /\ ~o.stop
             /\ pc' = "eval_loop"
             /\ obs' = [obs EXCEPT !.iters = @ + 1]
             /\ UNCHANGED <<calls, should_stop, error>>
    /\ eval_iter' = 0
    /\ prev_steps_in_epoch' = eval_progress.num_steps_completed_in_epoch
    /\ UNCHANGED <<cfg, ret, train_progress, eval_progress, train_step_output,
                   eval_step_output, training, prior_module_train_states,
                   train_prior_states, train_iter, result>>

\* (mutant) the loop test forgets state.should_stop
EvalLoopRuns_IgnoreStop ==
    ~is_epoch_done(eval_progress, cfg.max_eval_steps_per_epoch, eval_max_steps)

\* (mutant) the loop test forgets max_steps_per_epoch
EvalLoopRuns_IgnoreCap ==
    ~(should_stop \/ is_epoch_done(eval_progress, None, eval_max_steps))

\* (mutant) the loop test compares the cap with > instead of >=
EvalLoopRuns_CapOffByOne ==
    ~(should_stop
      \/ is_epoch_done(eval_progress,
                       IF cfg.max_eval_steps_per_epoch = None THEN None
                       ELSE cfg.max_eval_steps_per_epoch + 1,
                       eval_max_steps))

\* the while condition of the step loop
EvalLoopRuns ==
    ~(should_stop
      \/ is_epoch_done(eval_progress, cfg.max_eval_steps_per_epoch,
                       eval_max_steps))

\* (mutant) the batch is pulled before the loop test
EvalLoopHead_PullFirst ==
    /\ pc = "eval_loop"
    /\ IF ~cfg.pass_data_iter_to_step /\ eval_iter < cfg.eval_len
       THEN /\ eval_iter' = eval_iter + 1
            /\ obs' = [obs EXCEPT !.pulls = @ + 1, !.drawn = @ + 1]
            /\ pc' = IF EvalLoopRuns THEN "on_eval_step_start"
                     ELSE "on_eval_epoch_end"
       ELSE /\ UNCHANGED <<eval_iter, obs>>
            /\ pc' = IF EvalLoopRuns /\ cfg.pass_data_iter_to_step
                     THEN "on_eval_step_start" ELSE "on_eval_epoch_end"
    /\ UNCHANGED <<cfg, ret, should_stop, train_progress, eval_progress,
                   train_step_output, eval_step_output, training,
                   prior_module_train_states, train_prior_states, train_iter,
                   prev_steps_in_epoch, error, result, calls>>

\* the head of one iteration: the loop test and, for a step that takes a
\* batch, step_input = next(data_iter); StopIteration there breaks the loop
EvalLoopHead ==
    /\ pc = "eval_loop"
    /\ IF ~EvalLoopRuns
       THEN pc' = "on_eval_epoch_end" /\ UNCHANGED <<eval_iter, obs>>
       ELSE IF cfg.pass_data_iter_to_step
       THEN pc' = "on_eval_step_start" /\ UNCHANGED <<eval_iter, obs>>
       ELSE IF eval_iter < cfg.eval_len
       THEN /\ eval_iter' = eval_iter + 1
            /\ obs' = [obs EXCEPT !.pulls = @ + 1, !.drawn = @ + 1]
            /\ pc' = "on_eval_step_start"
       ELSE pc' = "on_eval_epoch_end" /\ UNCHANGED <<eval_iter, obs>>
    /\ UNCHANGED <<cfg, ret, should_stop, train_progress, eval_progress,
                   train_step_output, eval_step_output, training,
                   prior_module_train_states, train_prior_states, train_iter,
                   prev_steps_in_epoch, error, result, calls>>

\* an exception raised inside the try block of the step loop:
\* `except StopIteration: break`, anything else leaves the driver
EvalLoopRaise(kind, ob) ==
    IF kind = "StopIteration"
    THEN /\ pc' = "on_eval_epoch_end"
         /\ error' = error
         /\ obs' = ob
    ELSE EvalRaise(kind, ob)

\* callbacks' on_eval_step_start
EvalStepStart ==
    /\ pc = "on_eval_step_start"
    /\ \E o \in Outcomes(1) :
        /\ calls' = calls \o Invoked("on_eval_step_start", 1, o)
        /\ should_stop' = Stopped(o)
        /\ IF o.kind = "ok"
           THEN /\ pc' = "eval_step"
                /\ obs' = NoteStop(obs, o, "eval", "hook", eval_progress)
                /\ error' = error
           ELSE EvalLoopRaise(o.kind, NoteError(obs, o.kind))
    /\ UNCHANGED <<cfg, ret, train_progress, eval_progress, train_step_output,
                   eval_step_output, training, prior_module_train_states,
                   train_prior_states, eval_iter, train_iter,
                   prev_steps_in_epoch, result>>


\* what the step function draws from the iterator it is handed: a step that
\* takes a batch draws nothing itself (the driver pulled its batch); a step
\* that takes the iterator draws 1..MaxConsume batches with next()
StepDraws == IF cfg.pass_data_iter_to_step THEN 1..MaxConsume ELSE {0}

\* the step function raised `kind`.  A StopIteration out of a step that takes
\* the iterator is that unit's end-of-data signal, not an error of user code.
StepError(ob, kind) ==
    IF cfg.pass_data_iter_to_step /\ kind = "StopIteration"
    THEN ob
    ELSE [NoteError(ob, kind) EXCEPT !.step_raised = kind]

\* eval_state._step_output = eval_unit.eval_step(state, step_input)
EvalStep ==
    /\ pc = "eval_step"
    /\ \E o \in StepOutcomes, n \in StepDraws :
        LET ob == [obs EXCEPT !.eval_step_calls = @ + 1] IN
        /\ calls' = calls \o <<<<"eval_step", UNIT>>>>
        /\ IF eval_iter + n > cfg.eval_len
           THEN \* the step's own next(data_iter) raises StopIteration
                /\ o.kind = "ok" /\ ~o.stop
                /\ eval_iter' = cfg.eval_len
                /\ EvalLoopRaise("StopIteration",
                       [ob EXCEPT !.drawn = @ + (cfg.eval_len - eval_iter)])
                /\ UNCHANGED <<should_stop, eval_step_output,
                               train_step_output>>
           ELSE /\ eval_iter' = eval_iter + n
                /\ should_stop' = Stopped(o)
                /\ IF o.kind = "ok"
                   THEN /\ SetStepOutput(eval_state, "output")
                        /\ pc' = "on_eval_step_end"
                        /\ obs' = NoteStop([ob EXCEPT !.drawn = @ + n], o,
                                           "eval", "step", eval_progress)
                        /\ error' = error
                   ELSE /\ EvalLoopRaise(o.kind,
                              StepError([ob EXCEPT !.drawn = @ + n], o.kind))
                        /\ UNCHANGED <<eval_step_output, train_step_output>>
    /\ UNCHANGED <<cfg, ret, train_progress, eval_progress,
                   training, prior_module_train_states, train_prior_states,
                   train_iter, prev_steps_in_epoch, result>>

\* (mutant) the step is counted but its output is kept
EvalStepDone_KeepOutput(output, p) == <<output, increment_step(p)>>

\* (mutant) the step is not counted
EvalStepDone_NoCount(output, p) == <<"None", p>>

\* the tail of the try block after the step-end callbacks returned:
\* eval_state._step_output = None; eval_state.progress.increment_step()
EvalStepDone(output, p) == <<"None", increment_step(p)>>

\* callbacks' on_eval_step_end, then clear the output and count the step
EvalStepEnd ==
    /\ pc = "on_eval_step_end"
    /\ \E o \in Outcomes(1) :
        /\ calls' = calls \o Invoked("on_eval_step_end", 1, o)
        /\ should_stop' = Stopped(o)
        /\ IF o.kind = "ok"
           THEN /\ SetStepOutput(eval_state,
                       EvalStepDone(eval_step_output, eval_progress)[1])
                /\ SetProgress(eval_state,
                       EvalStepDone(eval_step_output, eval_progress)[2])
                /\ pc' = "eval_loop"
                /\ obs' = NoteStop(obs, o, "eval", "hook", eval_progress)
                /\ error' = error
           ELSE /\ EvalLoopRaise(o.kind, NoteError(obs, o.kind))
                /\ UNCHANGED <<eval_step_output, eval_progress,
                               train_step_output, train_progress>>
    /\ UNCHANGED <<cfg, ret, training,
                   prior_module_train_states, train_prior_states, eval_iter,
                   train_iter, prev_steps_in_epoch, result>>

\* (mutant) the steps of the epoch are not compared with prev_steps_in_epoch
any_steps_completed_NoPrev(p, prev) == p.num_steps_completed_in_epoch > 0

\* any_steps_completed
any_steps_completed(p, prev) ==
    LET d == p.num_steps_completed_in_epoch - prev IN
    (IF d < 0 THEN 0 - d ELSE d) > 0

\* (mutant) the epoch is not counted
EvalEpochDone_NoCount(p) == p

\* set progress counters for the next epoch
EvalEpochDone(p) == increment_epoch(p)

\* the warning for an empty epoch; on_eval_epoch_end (unit, callbacks);
\* eval_state.progress.increment_epoch()
EvalEpochEnd ==
    /\ pc = "on_eval_epoch_end"
    /\ \E o \in Outcomes(UNIT) :
        LET ob == [obs EXCEPT !.warned =
                     ~any_steps_completed(eval_progress, prev_steps_in_epoch)]
        IN
        /\ calls' = calls \o Invoked("on_eval_epoch_end", UNIT, o)
        /\ should_stop' = Stopped(o)
        /\ IF o.kind = "ok"
           THEN /\ SetProgress(eval_state, EvalEpochDone(eval_progress))
                /\ pc' = "on_eval_end"
                /\ obs' = NoteStop(ob, o, "eval", "hook", eval_progress)
                /\ error' = error
           ELSE /\ EvalRaise(o.kind, NoteError(ob, o.kind))
                /\ UNCHANGED <<eval_progress, train_progress>>
    /\ UNCHANGED <<cfg, ret, train_step_output,
                   eval_step_output, training, prior_module_train_states,
                   train_prior_states, eval_iter, train_iter,
                   prev_steps_in_epoch, result>>

\* where _evaluate_impl returns to
EvalReturnPc ==
    IF ret \in {"entry", "caller"} THEN "done"
    ELSE IF ret = "train_step" THEN "train_loop"
    ELSE "train_epochs"

\* on_eval_end (unit, callbacks); reset the modules' training mode; return.
\* Standalone, evaluate() then returns the State.
EvalOnEnd ==
    /\ pc = "on_eval_end"
    /\ \E o \in Outcomes(UNIT) :
        /\ calls' = calls \o Invoked("on_eval_end", UNIT, o)
        /\ should_stop' = Stopped(o)
        /\ IF o.kind = "ok"
           THEN /\ training' = reset_module_training_mode(prior_module_train_states)
                /\ pc' = EvalReturnPc
                /\ result' = IF ret \in {"entry", "caller"} THEN "returned"
                             ELSE result
                /\ obs' = [NoteStop(obs, o, "eval", "hook", eval_progress)
                              EXCEPT !.eval_exit = "returned"]
                /\ error' = error
           ELSE /\ EvalRaise(o.kind, NoteError(obs, o.kind))
                /\ UNCHANGED <<training, result>>
    /\ UNCHANGED <<cfg, ret, train_progress, eval_progress, train_step_output,
                   eval_step_output, prior_module_train_states,
                   train_prior_states, eval_iter, train_iter,
                   prev_steps_in_epoch>>

\* the invocations of a dispatch in which every participant returns
AllInvoked(hook, first) ==
    [i \in 1..(NumCallbacks - first + 1) |-> <<hook, first + i - 1>>]

\* evaluate()'s except clause: eval_unit.on_exception(state, e), the
\* callbacks' on_exception, raise e.  (The handlers are taken to return.)
EvaluateOnException ==
    /\ pc = "on_exception"
    /\ cfg.entry_point = "EVALUATE"
    /\ calls' = calls \o AllInvoked("on_exception", UNIT)
    /\ result' = "raised"
    /\ pc' = "done"
    /\ UNCHANGED <<cfg, ret, should_stop, train_progress, eval_progress,
                   train_step_output, eval_step_output, training,
                   prior_module_train_states, train_prior_states, eval_iter,
                   train_iter, prev_steps_in_epoch, error, obs>>

\* ------------------------------------------------------------ fit
\* (mutant) fit without a default for evaluate_every_n_epochs
NoDefaultEvaluateEveryNEpochs == None

\* fit's evaluate_every_n_epochs when the caller does not pass it: the run of
\* test_fit_stop passes neither argument and evaluates after its one epoch
DefaultEvaluateEveryNEpochs == 1

evaluate_every_n_epochs ==
    IF cfg.evaluate_every_n_epochs = Unset
    THEN DefaultEvaluateEveryNEpochs
    ELSE cfg.evaluate_every_n_epochs

evaluate_every_n_steps == cfg.evaluate_every_n_steps

\* an interleaving argument is active when it is non-null and > 0
Active(n) == n # None /\ n > 0

\* exactly one of the two must be active
FitConfigValid ==
    Active(evaluate_every_n_epochs) # Active(evaluate_every_n_steps)

\* fit(): validate the arguments, build the State, enter the train driver
Fit ==
    /\ pc = "start"
    /\ cfg.entry_point = "FIT"
    /\ IF FitConfigValid
       THEN pc' = "train_enter" /\ UNCHANGED <<error, result>>
       ELSE pc' = "done" /\ error' = "ConfigError" /\ result' = "raised"
    /\ UNCHANGED <<cfg, ret, should_stop, train_progress, eval_progress,
                   train_step_output, eval_step_output, training,
                   prior_module_train_states, train_prior_states, eval_iter,
                   train_iter, prev_steps_in_epoch, calls, obs>>

\* an exception leaves the train driver's loop
TrainRaise(kind, ob) ==
    /\ error' = kind
    /\ pc' = "train_unwind"
    /\ obs' = ob

\* the train driver: modules to train mode
TrainEnter ==
    /\ pc = "train_enter"
    /\ train_prior_states' = training
    /\ training' = set_module_training_mode(TRUE)
    /\ pc' = "on_train_start"
    /\ UNCHANGED <<cfg, ret, should_stop, train_progress, eval_progress,
                   train_step_output, eval_step_output,
                   prior_module_train_states, eval_iter, train_iter,
                   prev_steps_in_epoch, error, result, calls, obs>>

\* a hook of the train driver that changes nothing but the control position
TrainHook(here, first, next) ==
    /\ pc = here
    /\ \E o \in Outcomes(first) :
        /\ calls' = calls
        /\ should_stop' = Stopped(o)
        /\ IF o.kind = "ok"
           THEN /\ pc' = next
                /\ obs' = NoteStop(obs, o, "train", "hook", train_progress)
                /\ error' = error
           ELSE TrainRaise(o.kind, NoteError(obs, o.kind))

\* on_train_start (unit, callbacks)
TrainOnStart ==
    /\ TrainHook("on_train_start", UNIT, "train_epochs")
    /\ UNCHANGED <<cfg, ret, train_progress, eval_progress, train_step_output,
                   eval_step_output, training, prior_module_train_states,
                   train_prior_states, eval_iter, train_iter,
                   prev_steps_in_epoch, result>>

\* the run goes on while no stop is requested and max_epochs is not reached
TrainRuns ==
    ~(should_stop \/ train_progress.num_epochs_completed >= cfg.max_epochs)

TrainEpochs ==
    /\ pc = "train_epochs"
    /\ pc' = IF TrainRuns THEN "on_train_epoch_start" ELSE "on_train_end"
    /\ UNCHANGED <<cfg, ret, should_stop, train_progress, eval_progress,
                   train_step_output, eval_step_output, training,
                   prior_module_train_states, train_prior_states, eval_iter,
                   train_iter, prev_steps_in_epoch, error, result, calls, obs>>

\* on_train_epoch_start unless resuming mid-epoch; one iterator per epoch
TrainOnEpochStart ==
    /\ IF RunsEpochStart(train_progress)
       THEN TrainHook("on_train_epoch_start", UNIT, "train_loop")
       ELSE /\ pc = "on_train_epoch_start"
            /\ pc' = "train_loop"
            /\ UNCHANGED <<calls, should_stop, obs, error>>
    /\ train_iter' = 0
    /\ UNCHANGED <<cfg, ret, train_progress, eval_progress, train_step_output,
                   eval_step_output, training, prior_module_train_states,
                   train_prior_states, eval_iter, prev_steps_in_epoch, result>>

TrainLoopRuns ==
    ~(should_stop
      \/ is_epoch_done(train_progress, cfg.max_train_steps_per_epoch, None))

\* the loop test and the pull of one batch; exhaustion ends the epoch
TrainLoopHead ==
    /\ pc = "train_loop"
    /\ IF TrainLoopRuns /\ train_iter < cfg.train_len
       THEN train_iter' = train_iter + 1 /\ pc' = "on_train_step_start"
       ELSE train_iter' = train_iter /\ pc' = "on_train_epoch_end"
    /\ UNCHANGED <<cfg, ret, should_stop, train_progress, eval_progress,
                   train_step_output, eval_step_output, training,
                   prior_module_train_states, train_prior_states, eval_iter,
                   prev_steps_in_epoch, error, result, calls, obs>>

\* on_train_step_start (unit, callbacks)
TrainStepStart ==
    /\ TrainHook("on_train_step_start", UNIT, "train_step")
    /\ UNCHANGED <<cfg, ret, train_progress, eval_progress, train_step_output,
                   eval_step_output, training, prior_module_train_states,
                   train_prior_states, eval_iter, train_iter,
                   prev_steps_in_epoch, result>>

\* the unit's train_step; its result is the phase's last step output
TrainStep ==
    /\ pc = "train_step"
    /\ \E o \in StepOutcomes :
        LET ob == [obs EXCEPT !.train_step_calls = @ + 1] IN
        /\ calls' = calls
        /\ should_stop' = Stopped(o)
        /\ IF o.kind = "ok"
           THEN /\ train_step_output' = "output"
                /\ pc' = "on_train_step_end"
                /\ obs' = NoteStop(ob, o, "train", "step", train_progress)
                /\ error' = error
           ELSE /\ TrainRaise(o.kind, NoteError(ob, o.kind))
                /\ UNCHANGED train_step_output
    /\ UNCHANGED <<cfg, ret, train_progress, eval_progress, eval_step_output,
                   training, prior_module_train_states, train_prior_states,
                   eval_iter, train_iter, prev_steps_in_epoch, result>>

\* step-interleaving: an evaluate epoch every evaluate_every_n_steps
\* completed steps of the train epoch
EvalDueAfterStep(p) ==
    /\ Active(evaluate_every_n_steps)
    /\ p.num_steps_completed_in_epoch % evaluate_every_n_steps = 0

\* on_train_step_end (unit, callbacks); clear the output; count the step;
\* then the step-interleaving hook
TrainStepEnd ==
    /\ pc = "on_train_step_end"
    /\ \E o \in Outcomes(UNIT) :
        LET ob == [obs EXCEPT !.train_step_end_calls = @ + 1] IN
        /\ calls' = calls
        /\ should_stop' = Stopped(o)
        /\ IF o.kind = "ok"
           THEN /\ train_step_output' = "None"
                /\ train_progress' = increment_step(train_progress)
                /\ IF EvalDueAfterStep(increment_step(train_progress))
                   THEN pc' = "eval_enter" /\ ret' = "train_step"
                   ELSE pc' = "train_loop" /\ ret' = ret
                /\ obs' = NoteStop(ob, o, "train", "hook", train_progress)
                /\ error' = error
           ELSE /\ TrainRaise(o.kind, NoteError(ob, o.kind))
                /\ UNCHANGED <<train_step_output, train_progress, ret>>
    /\ UNCHANGED <<cfg, eval_progress, eval_step_output, training,
                   prior_module_train_states, train_prior_states, eval_iter,
                   train_iter, prev_steps_in_epoch, result>>

\* epoch-interleaving: an evaluate epoch when
\* num_epochs_completed % evaluate_every_n_epochs == 0
EvalDueAfterEpoch(p) ==
    /\ Active(evaluate_every_n_epochs)
    /\ p.num_epochs_completed % evaluate_every_n_epochs = 0

\* on_train_epoch_end (unit, callbacks); increment_epoch; then the
\* epoch-interleaving point
TrainEpochEnd ==
    /\ pc = "on_train_epoch_end"
    /\ \E o \in Outcomes(UNIT) :
        LET ob == [obs EXCEPT !.train_epoch_end_calls = @ + 1,
                              !.last_epoch_steps =
                                  train_progress.num_steps_completed_in_epoch]
        IN
        /\ calls' = calls
        /\ should_stop' = Stopped(o)
        /\ IF o.kind = "ok"
           THEN /\ train_progress' = increment_epoch(train_progress)
                /\ IF EvalDueAfterEpoch(increment_epoch(train_progress))
                   THEN pc' = "eval_enter" /\ ret' = "train_epoch"
                   ELSE pc' = "train_epochs" /\ ret' = ret
                /\ obs' = NoteStop(ob, o, "train", "hook", train_progress)
                /\ error' = error
           ELSE /\ TrainRaise(o.kind, NoteError(ob, o.kind))
                /\ UNCHANGED <<train_progress, ret>>
    /\ UNCHANGED <<cfg, eval_progress, train_step_output, eval_step_output,
                   training, prior_module_train_states, train_prior_states,
                   eval_iter, train_iter, prev_steps_in_epoch, result>>

\* on_train_end (unit, callbacks); restore the modules; fit returns the State
TrainOnEnd ==
    /\ pc = "on_train_end"
    /\ \E o \in Outcomes(UNIT) :
        /\ calls' = calls
        /\ should_stop' = Stopped(o)
        /\ IF o.kind = "ok"
           THEN /\ training' = reset_module_training_mode(train_prior_states)
                /\ pc' = "done"
                /\ result' = "returned"
                /\ obs' = NoteStop(obs, o, "train", "hook", train_progress)
                /\ error' = error
           ELSE /\ TrainRaise(o.kind, NoteError(obs, o.kind))
                /\ UNCHANGED <<training, result>>
    /\ UNCHANGED <<cfg, ret, train_progress, eval_progress, train_step_output,
                   eval_step_output, prior_module_train_states,
                   train_prior_states, eval_iter, train_iter,
                   prev_steps_in_epoch>>

\* the train driver restores the modules' modes on every exit path
TrainUnwind ==
    /\ pc = "train_unwind"
    /\ training' = reset_module_training_mode(train_prior_states)
    /\ pc' = "on_exception"
    /\ UNCHANGED <<cfg, ret, should_stop, train_progress, eval_progress,
                   train_step_output, eval_step_output,
                   prior_module_train_states, train_prior_states, eval_iter,
                   train_iter, prev_steps_in_epoch, error, result, calls, obs>>

\* fit's exception handler: the unit's on_exception, the callbacks', re-raise
FitOnException ==
    /\ pc = "on_exception"
    /\ cfg.entry_point = "FIT"
    /\ calls' = calls \o AllInvoked("on_exception", UNIT)
    /\ result' = "raised"
    /\ pc' = "done"
    /\ UNCHANGED <<cfg, ret, should_stop, train_progress, eval_progress,
                   train_step_output, eval_step_output, training,
                   prior_module_train_states, train_prior_states, eval_iter,
                   train_iter, prev_steps_in_epoch, error, obs>>

\* ------------------------------------------------------------ runs
Optional(S) == {None} \cup S

EvaluateConfigs ==
    [entry_point : {"EVALUATE"},
     user_code : {"any"},
     eval_len : 0..MaxEvalLen,
     max_eval_steps_per_epoch : Optional(0..MaxCap),
     pass_data_iter_to_step : BOOLEAN,
     train_len : {0},
     max_train_steps_per_epoch : {None},
     max_epochs : {None},
     evaluate_every_n_epochs : {Unset},
     evaluate_every_n_steps : {None},
     resume : {0}]

\* direct calls of _evaluate_impl with a State restored mid-epoch
ResumeCalls ==
    [entry_point : {"EVALUATE_IMPL"},
     user_code : {"any"},
     eval_len : 0..MaxEvalLen,
     max_eval_steps_per_epoch : Optional(0..(MaxResume + 1)),
     pass_data_iter_to_step : BOOLEAN,
     train_len : {0},
     max_train_steps_per_epoch : {None},
     max_epochs : {None},
     evaluate_every_n_epochs : {Unset},
     evaluate_every_n_steps : {None},
     resume : 1..MaxResume]

\* the calls that resume an evaluate epoch after cfg.resume steps under a cap
\* that those steps respect
ResumeConfigs ==
    {c \in ResumeCalls :
        c.max_eval_steps_per_epoch = None
        \/ c.max_eval_steps_per_epoch >= c.resume}

\* fit runs of a unit whose steps take a batch, as the units of the tests do
FitConfigs ==
    [entry_point : {"FIT"},
     user_code : {"returns"},
     eval_len : 0..MaxEvalLen,
     max_eval_steps_per_epoch : Optional(0..MaxCap),
     pass_data_iter_to_step : {FALSE},
     train_len : 0..MaxTrainLen,
     max_train_steps_per_epoch : Optional(0..MaxCap),
     max_epochs : 1..MaxEpochs,
     evaluate_every_n_epochs : {Unset} \cup Optional(0..MaxEvery),
     evaluate_every_n_steps : Optional(0..MaxEvery),
     resume : {0}]

\* one-epoch fit runs of arbitrary user code, evaluating after the epoch or
\* after every step
FaultyFitConfigs ==
    [entry_point : {"FIT"},
     user_code : {"any"},
     eval_len : 0..MaxEvalLen,
     max_eval_steps_per_epoch : {None},
     pass_data_iter_to_step : BOOLEAN,
     train_len : 0..1,
     max_train_steps_per_epoch : {None},
     max_epochs : {1},
     evaluate_every_n_epochs : {Unset, None},
     evaluate_every_n_steps : {None, 1},
     resume : {0}]

\* the three runs of tests/runner/test_fit.py
\* test_fit_evaluate_every_n_epochs: 8 samples / batch 2 = 4 train batches,
\* 4 / 2 = 2 eval batches, max_epochs = 3, evaluate_every_n_epochs = 1
TestEveryNEpochs ==
    [entry_point |-> "FIT", user_code |-> "returns", eval_len |-> 2,
     max_eval_steps_per_epoch |-> None, pass_data_iter_to_step |-> FALSE,
     train_len |-> 4, max_train_steps_per_epoch |-> None, max_epochs |-> 3,
     evaluate_every_n_epochs |-> 1, evaluate_every_n_steps |-> None,
     resume |-> 0]

\* test_fit_evaluate_every_n_steps: 16 / 2 = 8 train batches, 2 eval batches,
\* evaluate_every_n_epochs = None, evaluate_every_n_steps = 2
TestEveryNSteps ==
    [entry_point |-> "FIT", user_code |-> "returns", eval_len |-> 2,
     max_eval_steps_per_epoch |-> None, pass_data_iter_to_step |-> FALSE,
     train_len |-> 8, max_train_steps_per_epoch |-> None, max_epochs |-> 3,
     evaluate_every_n_epochs |-> None, evaluate_every_n_steps |-> 2,
     resume |-> 0]

\* test_fit_stop: 10 / 2 = 5 batches in both loaders,
\* max_train_steps_per_epoch = 4, neither interleaving argument passed
TestStop ==
    [entry_point |-> "FIT", user_code |-> "returns", eval_len |-> 5,
     max_eval_steps_per_epoch |-> None, pass_data_iter_to_step |-> FALSE,
     train_len |-> 5, max_train_steps_per_epoch |-> 4, max_epochs |-> 3,
     evaluate_every_n_epochs |-> Unset, evaluate_every_n_steps |-> None,
     resume |-> 0]

TestConfigs == {TestEveryNEpochs, TestEveryNSteps, TestStop}

Configs ==
    EvaluateConfigs \cup ResumeConfigs \cup FitConfigs \cup FaultyFitConfigs
    \cup TestConfigs

\* the eval progress of the State the call starts from: a fresh Progress for
\* evaluate() and fit(), cfg.resume steps into its first epoch for a resume
InitialEvalProgress ==
    [num_steps_completed |-> cfg.resume,
     num_steps_completed_in_epoch |-> cfg.resume,
     num_epochs_completed |-> 0]

\* the modules' modes before the call: either mode for evaluate; a freshly
\* built module (training = True) for fit, as in the tests
InitialModes ==
    IF cfg.entry_point = "EVALUATE"
    THEN [Modules -> BOOLEAN]
    ELSE {[m \in Modules |-> TRUE]}

Init ==
    /\ cfg \in Configs
    /\ pc = "start"
    /\ ret = "entry"
    /\ should_stop = FALSE
    /\ train_progress = Progress0
    /\ eval_progress = InitialEvalProgress
    /\ train_step_output = "None"
    /\ eval_step_output = "None"
    /\ training \in InitialModes
    /\ prior_module_train_states = training
    /\ train_prior_states = training
    /\ eval_iter = 0
    /\ train_iter = 0
    /\ prev_steps_in_epoch = 0
    /\ error = "none"
    /\ result = "running"
    /\ calls = << >>
    /\ obs = Obs0

Next ==
    \/ Evaluate
    \/ EvaluateImpl
    \/ EvaluateImplRaised
    \/ EvalEnter
    \/ EvalOnStart
    \/ EvalOnEpochStart
    \/ EvalLoopHead
    \/ EvalStepStart
    \/ EvalStep
    \/ EvalStepEnd
    \/ EvalEpochEnd
    \/ EvalOnEnd
    \/ EvaluateOnException
    \/ Fit
    \/ TrainEnter
    \/ TrainOnStart
    \/ TrainEpochs
    \/ TrainOnEpochStart
    \/ TrainLoopHead
    \/ TrainStepStart
    \/ TrainStep
    \/ TrainStepEnd
    \/ TrainEpochEnd
    \/ TrainOnEnd
    \/ TrainUnwind
    \/ FitOnException

Spec == Init /\ [][Next]_vars


\* ------------------------------------------------------------ properties
\* steps of one epoch over `len` batches, one batch per step, under `cap`
StepsOf(len, cap) == IF cap # None /\ cap < len THEN cap ELSE len

\* invocations of `hook` logged for the current evaluate call
CountCalls(hook) == Cardinality({i \in 1..Len(calls) : calls[i][1] = hook})

EvalStepsPerEpoch == StepsOf(cfg.eval_len, cfg.max_eval_steps_per_epoch)
TrainStepsPerEpoch == StepsOf(cfg.train_len, cfg.max_train_steps_per_epoch)

\* the run is a fit run of well-behaved user code so far: no stop requested,
\* a step takes one batch, no user code has raised
PlainFit ==
    /\ cfg.entry_point = "FIT"
    /\ ~should_stop
    /\ obs.user_error = "none"
    /\ ~cfg.pass_data_iter_to_step

\* C1: a fit run with evaluate_every_n_epochs = 1 and max_epochs = M that
\* returns without a stop request has run exactly M evaluate epochs: the eval
\* phase counts M epochs, M * Se steps (Se = steps of one eval epoch) and 0
\* steps in the current epoch.
TheoremC1 ==
    (/\ PlainFit
     /\ result = "returned"
     /\ evaluate_every_n_epochs = 1
     /\ ~Active(evaluate_every_n_steps))
    => /\ eval_progress.num_epochs_completed = cfg.max_epochs
       /\ eval_progress.num_steps_completed = cfg.max_epochs * EvalStepsPerEpoch
       /\ eval_progress.num_steps_completed_in_epoch = 0

\* the run of test_fit_evaluate_every_n_epochs: 3 eval epochs, 6 eval steps
WitnessC1 ==
    /\ cfg = TestEveryNEpochs
    /\ result = "returned"
    /\ ~should_stop
    /\ train_progress.num_steps_completed = 12
    /\ eval_progress.num_epochs_completed = 3
    /\ eval_progress.num_steps_completed = 6

\* C2: with evaluate_every_n_steps = N active, at every train epoch boundary
\* of a fit run without stop request the eval phase has completed
\* floor(S/N) epochs per completed train epoch (S = steps of one train
\* epoch), each of Se eval steps; at return that is max_epochs * floor(S/N).
TheoremC2 ==
    (/\ PlainFit
     /\ Active(evaluate_every_n_steps)
     /\ pc \in {"train_epochs", "on_train_end", "done"}
     /\ result # "raised")
    => LET per == TrainStepsPerEpoch \div evaluate_every_n_steps IN
       /\ eval_progress.num_epochs_completed
            = train_progress.num_epochs_completed * per
       /\ eval_progress.num_steps_completed
            = eval_progress.num_epochs_completed * EvalStepsPerEpoch
       /\ eval_progress.num_steps_completed_in_epoch = 0
       /\ result = "returned"
            => train_progress.num_epochs_completed = cfg.max_epochs

\* the run of test_fit_evaluate_every_n_steps: 12 eval epochs, 24 eval steps
WitnessC2 ==
    /\ cfg = TestEveryNSteps
    /\ result = "returned"
    /\ ~should_stop
    /\ train_progress.num_epochs_completed = 3
    /\ eval_progress.num_epochs_completed = 12
    /\ eval_progress.num_steps_completed = 24

\* C3: when stop() is called inside the step function during step k of epoch
\* e and the run returns, that step was finished and counted (its step-end
\* hooks ran), it was the last step of the epoch, the epoch-end hooks of
\* epoch e fired and no further epoch started: the phase counts e epochs, 0
\* steps in the epoch, and as many steps as step-function invocations.
\* Stated for the train phase of fit and for the evaluate driver.
TheoremC3 ==
    /\ (/\ cfg.entry_point = "FIT"
        /\ result = "returned"
        /\ obs.stop_phase = "train"
        /\ obs.stop_by = "step")
       => /\ train_progress.num_steps_completed_in_epoch = 0
          /\ train_progress.num_epochs_completed = obs.stop_epoch
          /\ train_progress.num_steps_completed = obs.train_step_calls
          /\ obs.train_step_end_calls = obs.train_step_calls
          /\ obs.last_epoch_steps = obs.stop_step
          /\ obs.train_epoch_end_calls = obs.stop_epoch
    /\ (/\ cfg.entry_point = "EVALUATE"
        /\ result = "returned"
        /\ obs.stop_phase = "eval"
        /\ obs.stop_by = "step"
        /\ obs.user_error = "none")
       => /\ eval_progress.num_steps_completed_in_epoch = 0
          /\ eval_progress.num_epochs_completed = obs.stop_epoch
          /\ eval_progress.num_steps_completed = obs.stop_step
          /\ obs.eval_step_calls = obs.stop_step
          /\ CountCalls("eval_step") = obs.stop_step
          /\ CountCalls("on_eval_step_end") = obs.stop_step * NumCallbacks
          /\ CountCalls("on_eval_epoch_end") = NumCallbacks + 1

\* the run of test_fit_stop: stop on the 2nd step, 1 train epoch, 2 steps
WitnessC3 ==
    /\ cfg = TestStop
    /\ result = "returned"
    /\ obs.stop_phase = "train"
    /\ obs.stop_by = "step"
    /\ obs.stop_step = 2
    /\ train_progress.num_epochs_completed = 1
    /\ train_progress.num_steps_completed = 2
    /\ obs.train_step_calls = 2


\* the hooks of an evaluate call that runs no step, in order
HooksOfEmptyEpoch ==
    AllInvoked("on_eval_start", UNIT) \o AllInvoked("on_eval_epoch_start", UNIT)
    \o AllInvoked("on_eval_epoch_end", UNIT) \o AllInvoked("on_eval_end", UNIT)

\* C4: an evaluate call entered with should_stop already true pulls no batch
\* and runs no step; when it returns it has fired on_eval_start,
\* on_eval_epoch_start, on_eval_epoch_end and on_eval_end (unit, then the
\* callbacks) and counted one more eval epoch.  A fit run with
\* evaluate_every_n_epochs = 1 in which a train step of the first epoch
\* requested the stop returns with 1 eval epoch and 0 eval steps.
TheoremC4 ==
    /\ obs.entered_stopped
       => /\ obs.pulls = 0
          /\ CountCalls("eval_step") = 0
          /\ CountCalls("on_eval_step_start") = 0
          /\ CountCalls("on_eval_step_end") = 0
          /\ eval_progress.num_steps_completed = obs.steps_at_entry
    /\ (obs.entered_stopped /\ obs.eval_exit = "returned")
       => /\ Len(calls) >= Len(HooksOfEmptyEpoch)
          /\ SubSeq(calls, 1, Len(HooksOfEmptyEpoch)) = HooksOfEmptyEpoch
          /\ eval_progress.num_epochs_completed = obs.epochs_at_entry + 1
          /\ eval_progress.num_steps_completed_in_epoch = 0
    /\ (/\ cfg.entry_point = "FIT"
        /\ result = "returned"
        /\ evaluate_every_n_epochs = 1
        /\ obs.stop_phase = "train"
        /\ obs.stop_by = "step"
        /\ obs.stop_epoch = 1)
       => /\ eval_progress.num_epochs_completed = 1
          /\ eval_progress.num_steps_completed = 0
          /\ eval_progress.num_steps_completed_in_epoch = 0

\* the evaluate call at the end of test_fit_stop's only train epoch
WitnessC4 ==
    /\ cfg = TestStop
    /\ result = "returned"
    /\ obs.entered_stopped
    /\ obs.eval_exit = "returned"
    /\ obs.stop_by = "step"
    /\ calls = HooksOfEmptyEpoch
    /\ eval_progress.num_epochs_completed = 1
    /\ eval_progress.num_steps_completed = 0

\* the evaluate epoch, begun by this call, has max_steps_per_epoch = K, a
\* source of more than K batches, a step that takes one batch, no stop
\* request and no error
CappedEpoch ==
    /\ cfg.max_eval_steps_per_epoch # None
    /\ cfg.eval_len > cfg.max_eval_steps_per_epoch
    /\ ~cfg.pass_data_iter_to_step
    /\ ~should_stop
    /\ obs.user_error = "none"
    /\ obs.in_epoch_at_entry = 0

\* C5: with max_steps_per_epoch = K the evaluate step loop never counts more
\* than K steps in the epoch; over a source of more than K batches and
\* without stop request the loop ends, without raising, after exactly K
\* steps, and the call adds exactly K steps.
TheoremC5 ==
    /\ cfg.max_eval_steps_per_epoch # None
       => eval_progress.num_steps_completed_in_epoch
             <= cfg.max_eval_steps_per_epoch
    /\ (CappedEpoch /\ pc = "on_eval_epoch_end")
       => /\ eval_progress.num_steps_completed_in_epoch
               = cfg.max_eval_steps_per_epoch
          /\ CountCalls("eval_step") = cfg.max_eval_steps_per_epoch
          /\ error = "none"
    /\ (CappedEpoch /\ obs.eval_exit = "returned")
       => eval_progress.num_steps_completed
             = obs.steps_at_entry + cfg.max_eval_steps_per_epoch

\* an epoch capped at K = 1 over 2 batches has left its step loop
WitnessC5 ==
    /\ CappedEpoch
    /\ pc = "on_eval_epoch_end"
    /\ cfg.max_eval_steps_per_epoch = 1
    /\ cfg.eval_len = 2
    /\ eval_progress.num_steps_completed_in_epoch = 1

\* C6: once the evaluate step loop is left (epoch-end hooks, on_eval_end,
\* after the return) the eval phase's step output is None, and while no
\* error is in flight it is set only during a step's step-end hooks.
CounterC6 ==
    /\ (pc \in {"on_eval_epoch_end", "on_eval_end"}
        \/ obs.eval_exit = "returned")
       => eval_step_output = "None"
    /\ (eval_step_output # "None" /\ error = "none")
       => pc = "on_eval_step_end"

\* the on_exception hooks ran last: the unit's, then each callback's, in
\* registration order
OnExceptionRan ==
    /\ Len(calls) >= NumCallbacks + 1
    /\ SubSeq(calls, Len(calls) - NumCallbacks, Len(calls))
          = AllInvoked("on_exception", UNIT)

\* C7: whenever user code (a step function, a unit hook, a callback hook)
\* raised during evaluate, the call ends by raising that same exception,
\* after the unit's on_exception and then the callbacks' on_exception ran;
\* it never returns a State.
CounterC7 ==
    (/\ cfg.entry_point = "EVALUATE"
     /\ pc = "done"
     /\ obs.user_error # "none")
    => /\ result = "raised"
       /\ error = obs.user_error
       /\ OnExceptionRan

\* C7, for the exceptions that leave _evaluate_impl: evaluate() runs the
\* on_exception hooks in that order and raises the exception unchanged.
C7Propagated ==
    (cfg.entry_point = "EVALUATE" /\ pc = "done" /\ obs.eval_exit = "raised")
    => /\ result = "raised"
       /\ error = obs.last_error
       /\ OnExceptionRan
       /\ CountCalls("on_exception") = NumCallbacks + 1

\* C8: for a unit whose step takes a batch, an error raised by the step
\* function or by a step-start / step-end callback is never caught by the
\* step loop: the epoch does not go on to its epoch-end hooks, and the call
\* does not return.
CounterC8 ==
    (/\ ~cfg.pass_data_iter_to_step
     /\ obs.user_error # "none"
     /\ obs.eval_calls > 0)
    => /\ pc \notin {"on_eval_epoch_end", "on_eval_end"}
       /\ obs.eval_exit # "returned"
       /\ result # "returned"

\* C9: when _evaluate_impl has been left, by returning or by raising, every
\* tracked module is in the mode it had before the call.
CounterC9 ==
    (/\ obs.eval_exit # "none"
     /\ (cfg.entry_point = "EVALUATE" \/ pc = "train_unwind"
         \/ obs.eval_exit = "returned"))
    => \A m \in Modules : training[m] = prior_module_train_states[m]

\* C9, for the normal return: the modes are restored.
C9Returned ==
    (obs.eval_exit = "returned" /\ cfg.entry_point = "EVALUATE")
    => \A m \in Modules : training[m] = prior_module_train_states[m]

\* an argument as the caller passed it is active: non-null and > 0
PassedActive(n) == n # Unset /\ n # None /\ n > 0

\* nothing of the run has happened: no hook, no step, no progress
NothingRan ==
    /\ obs = Obs0
    /\ calls = << >>
    /\ train_progress = Progress0
    /\ eval_progress = Progress0

TheoremC11 ==
    (/\ PlainFit
     /\ cfg.max_train_steps_per_epoch = None
     /\ pc \in {"train_epochs", "on_train_end", "done"}
     /\ result # "raised")
    => /\ train_progress.num_steps_completed
            = train_progress.num_epochs_completed * cfg.train_len
       /\ train_progress.num_steps_completed_in_epoch = 0
       /\ train_progress.num_epochs_completed <= cfg.max_epochs
       /\ result = "returned"
            => train_progress.num_epochs_completed = cfg.max_epochs

\* the run of test_fit_evaluate_every_n_steps has returned: 3 train epochs of
\* 8 steps, with 12 evaluate epochs nested in them
WitnessC11 ==
    /\ cfg = TestEveryNSteps
    /\ result = "returned"
    /\ ~should_stop
    /\ train_progress.num_epochs_completed = 3
    /\ train_progress.num_steps_completed = 24
    /\ train_progress.num_steps_completed_in_epoch = 0
    /\ obs.eval_calls = 12

\* the invocations of one complete step: the callbacks' on_eval_step_start,
\* the step function, the callbacks' on_eval_step_end
StepCalls ==
    AllInvoked("on_eval_step_start", 1) \o <<<<"eval_step", UNIT>>>>
    \o AllInvoked("on_eval_step_end", 1)

\* a step whose step function ended the epoch by raising StopIteration
CutStepCalls ==
    AllInvoked("on_eval_step_start", 1) \o <<<<"eval_step", UNIT>>>>

RECURSIVE Repeat(_, _)
Repeat(s, k) == IF k <= 0 THEN << >> ELSE s \o Repeat(s, k - 1)

\* the invocations of an evaluate call of k complete steps followed by `tail`
ExpectedCalls(k, tail) ==
    AllInvoked("on_eval_start", UNIT)
    \o (IF obs.in_epoch_at_entry = 0
        THEN AllInvoked("on_eval_epoch_start", UNIT) ELSE << >>)
    \o Repeat(StepCalls, k) \o tail
    \o AllInvoked("on_eval_epoch_end", UNIT)
    \o AllInvoked("on_eval_end", UNIT)

\* steps counted by the current evaluate call
StepsOfCall == eval_progress.num_steps_completed - obs.steps_at_entry

\* C12: an evaluate driver call that returned has fired on_eval_start,
\* on_eval_epoch_start, then for each step the step-start callbacks, the step
\* function and the step-end callbacks, then on_eval_epoch_end and
\* on_eval_end, each hook on the unit first and then on the callbacks in
\* registration order; the epoch is counted between on_eval_epoch_end and
\* on_eval_end.
CounterC12 ==
    /\ obs.eval_exit = "returned" => calls = ExpectedCalls(StepsOfCall, << >>)
    /\ (pc = "on_eval_end" /\ error = "none")
       => eval_progress.num_epochs_completed = obs.epochs_at_entry + 1
    /\ (pc = "on_eval_epoch_end" /\ error = "none")
       => eval_progress.num_epochs_completed = obs.epochs_at_entry

\* C12, where no StopIteration is raised inside a step: the order holds
\* exactly when no user code raised and the step takes a batch; a step that
\* takes the iterator and signals its end leaves one cut step (step-start
\* callbacks and the step function, no step-end) before on_eval_epoch_end.
\* on_eval_start and on_eval_end fire exactly once in every returned call.
C12Ordered ==
    /\ (obs.eval_exit = "returned" /\ obs.user_error = "none")
       => \/ calls = ExpectedCalls(StepsOfCall, << >>)
          \/ /\ cfg.pass_data_iter_to_step
             /\ calls = ExpectedCalls(StepsOfCall, CutStepCalls)
    /\ obs.eval_exit = "returned"
       => /\ CountCalls("on_eval_start") = NumCallbacks + 1
          /\ CountCalls("on_eval_end") = NumCallbacks + 1
          /\ CountCalls("on_eval_epoch_end") = NumCallbacks + 1
    /\ (pc = "on_eval_end" /\ error = "none")
       => eval_progress.num_epochs_completed = obs.epochs_at_entry + 1
    /\ (pc = "on_eval_epoch_end" /\ error = "none")
       => eval_progress.num_epochs_completed = obs.epochs_at_entry

\* the last n invocations logged
LastCalls(n) ==
    IF Len(calls) < n THEN << >>
    ELSE SubSeq(calls, Len(calls) - n + 1, Len(calls))

\* the step of the running evaluate epoch that is in progress: the k-th
KthStep == obs.in_epoch_at_entry + CountCalls("eval_step")

\* C13 (as claimed): when the step function is about to run, the step-start
\* hooks of that step have just run on the unit and then on each callback;
\* while the step-end hooks of the k-th step run, the step output is set and
\* num_steps_completed_in_epoch = k - 1.
CounterC13 ==
    /\ pc = "eval_step"
       => LastCalls(NumCallbacks + 1) = AllInvoked("on_eval_step_start", UNIT)
    /\ pc = "on_eval_step_end"
       => /\ eval_step_output = "output"
          /\ eval_progress.num_steps_completed_in_epoch = KthStep - 1

\* C13 (amended): in the evaluate step loop on_eval_step_start and
\* on_eval_step_end are dispatched to the callbacks only, in registration
\* order, around the step function; the unit takes part through its step
\* function alone.  While the step-end callbacks of the k-th step run the
\* step output holds that step's result and num_steps_completed_in_epoch =
\* k - 1; the output is cleared and the step counted after they returned.
TheoremC13 ==
    /\ pc = "eval_step"
       => /\ LastCalls(NumCallbacks) = AllInvoked("on_eval_step_start", 1)
          /\ eval_progress.num_steps_completed_in_epoch = KthStep
    /\ pc = "on_eval_step_end"
       => /\ LastCalls(NumCallbacks + 1)
               = AllInvoked("on_eval_step_start", 1) \o <<<<"eval_step", UNIT>>>>
          /\ eval_step_output = "output"
          /\ eval_progress.num_steps_completed_in_epoch = KthStep - 1
    /\ (pc = "eval_loop" /\ obs.user_error = "none")
       => /\ eval_step_output = "None"
          /\ eval_progress.num_steps_completed_in_epoch = KthStep
          /\ Len(calls) > 0
          /\ calls[Len(calls)][1]
               \in {"on_eval_step_end",
                    IF obs.in_epoch_at_entry = 0
                    THEN "on_eval_epoch_start" ELSE "on_eval_start"}
    /\ \A i \in 1..Len(calls) :
          calls[i][1] \in {"on_eval_step_start", "on_eval_step_end"}
             => calls[i][2] # UNIT

\* the step-end callbacks of the 2nd step of an evaluate epoch are running
WitnessC13 ==
    /\ pc = "on_eval_step_end"
    /\ KthStep = 2
    /\ eval_step_output = "output"
    /\ eval_progress.num_steps_completed_in_epoch = 1
    /\ LastCalls(1) = <<<<"eval_step", UNIT>>>>

\* positions inside _evaluate_impl after the epoch-start stage
AfterEpochStart ==
    {"eval_loop", "on_eval_step_start", "eval_step", "on_eval_step_end",
     "on_eval_epoch_end", "on_eval_end"}

\* an evaluate call that resumes mid-epoch with a unit whose step takes a
\* batch, no stop request and no user code raising
PlainResume ==
    /\ obs.in_epoch_at_entry > 0
    /\ ~cfg.pass_data_iter_to_step
    /\ ~should_stop
    /\ obs.user_error = "none"

\* where a resumed epoch of PlainResume ends: at the cap when the resume
\* point lies below it and the source is long enough
ResumedEpochEnd ==
    LET r == obs.in_epoch_at_entry
        K == cfg.max_eval_steps_per_epoch IN
    IF K = None THEN r + cfg.eval_len
    ELSE IF r >= K THEN r
    ELSE IF r + cfg.eval_len < K THEN r + cfg.eval_len
    ELSE K

\* C14: in an evaluate driver call the epoch-start hooks (unit, then
\* callbacks) have fired once the step loop is reached exactly when
\* num_steps_completed_in_epoch was 0 at entry; a call entered with r > 0
\* never fires them, counts on from r toward max_steps_per_epoch, and when
\* it returns has fired the epoch-end hooks once and counted one epoch.
TheoremC14 ==
    /\ (obs.eval_calls > 0 /\ pc \in AfterEpochStart)
       => CountCalls("on_eval_epoch_start")
             = (IF obs.in_epoch_at_entry = 0 THEN NumCallbacks + 1 ELSE 0)
    /\ (obs.eval_calls > 0 /\ obs.in_epoch_at_entry > 0)
       => /\ CountCalls("on_eval_epoch_start") = 0
          /\ pc \in AfterEpochStart \ {"on_eval_end"}
             => eval_progress.num_steps_completed_in_epoch
                   >= obs.in_epoch_at_entry
    /\ (obs.in_epoch_at_entry > 0 /\ obs.eval_exit = "returned")
       => /\ CountCalls("on_eval_epoch_end") = NumCallbacks + 1
          /\ eval_progress.num_epochs_completed = obs.epochs_at_entry + 1
          /\ eval_progress.num_steps_completed_in_epoch = 0
    /\ (PlainResume /\ pc = "on_eval_epoch_end")
       => /\ eval_progress.num_steps_completed_in_epoch = ResumedEpochEnd
          /\ CountCalls("eval_step")
               = ResumedEpochEnd - obs.in_epoch_at_entry

\* an epoch resumed after 1 step under a cap of 2 has run one more step and
\* left its step loop without firing the epoch-start hooks
WitnessC14 ==
    /\ PlainResume
    /\ pc = "on_eval_epoch_end"
    /\ obs.in_epoch_at_entry = 1
    /\ cfg.max_eval_steps_per_epoch = 2
    /\ cfg.eval_len = 2
    /\ eval_progress.num_steps_completed_in_epoch = 2
    /\ CountCalls("eval_step") = 1
    /\ CountCalls("on_eval_epoch_start") = 0

\* C15: over an empty data source an evaluate call counts no step; unless
\* user code raises it raises nothing, and when it returns it has fired the
\* epoch-end hooks and counted one epoch; a unit whose step takes a batch is
\* never invoked.  The warning "No steps completed during evaluate epoch!"
\* is emitted exactly when the call completed no step.
TheoremC15 ==
    /\ (cfg.eval_len = 0 /\ obs.eval_calls > 0)
       => /\ StepsOfCall = 0
          /\ CountCalls("on_eval_step_end") = 0
          /\ ~cfg.pass_data_iter_to_step
             => /\ CountCalls("eval_step") = 0
                /\ CountCalls("on_eval_step_start") = 0
          /\ obs.user_error = "none"
             => /\ obs.eval_exit # "raised"
                /\ error = "none"
          /\ obs.eval_exit = "returned"
             => /\ CountCalls("on_eval_epoch_end") = NumCallbacks + 1
                /\ eval_progress.num_epochs_completed = obs.epochs_at_entry + 1
                /\ obs.warned
    /\ obs.warned => StepsOfCall = 0
    /\ (obs.eval_calls > 0
        /\ (pc = "on_eval_end" \/ obs.eval_exit = "returned"))
       => (obs.warned <=> StepsOfCall = 0)

\* evaluate() over an empty dataloader has returned, with the warning
WitnessC15 ==
    /\ cfg.entry_point = "EVALUATE"
    /\ cfg.eval_len = 0
    /\ result = "returned"
    /\ obs.warned
    /\ obs.user_error = "none"
    /\ CountCalls("on_eval_epoch_end") = NumCallbacks + 1
    /\ eval_progress = increment_epoch(Progress0)

\* one transition of a phase's Progress from p to q: nothing, one step
\* counted, or one epoch completed
ProgressMoves(p, q) ==
    \/ q = p
    \/ /\ q.num_steps_completed = p.num_steps_completed + 1
       /\ q.num_steps_completed_in_epoch = p.num_steps_completed_in_epoch + 1
       /\ q.num_epochs_completed = p.num_epochs_completed
    \/ /\ q.num_epochs_completed = p.num_epochs_completed + 1
       /\ q.num_steps_completed_in_epoch = 0
       /\ q.num_steps_completed = p.num_steps_completed

ProgressSound(p) ==
    /\ 0 <= p.num_steps_completed_in_epoch
    /\ p.num_steps_completed_in_epoch <= p.num_steps_completed
    /\ 0 <= p.num_epochs_completed

\* C16: in every state of an evaluate or fit run, for the train and the eval
\* phase, num_steps_completed_in_epoch <= num_steps_completed; in every
\* transition a phase's counters stay, or one step is counted in both step
\* counters, or one epoch is counted and num_steps_completed_in_epoch goes
\* to 0: no counter decreases otherwise.  The epoch is counted exactly in
\* the transition that completes it (after the epoch-end hooks returned).
TheoremC16 ==
    /\ [](ProgressSound(eval_progress) /\ ProgressSound(train_progress))
    /\ [][/\ ProgressMoves(eval_progress, eval_progress')
          /\ ProgressMoves(train_progress, train_progress')
          /\ (pc = "on_eval_epoch_end" /\ pc' = "on_eval_end")
             <=> eval_progress'.num_epochs_completed
                    = eval_progress.num_epochs_completed + 1
          /\ (pc = "on_train_epoch_end" /\ pc' \in {"train_epochs", "eval_enter"})
             <=> train_progress'.num_epochs_completed
                    = train_progress.num_epochs_completed + 1]_vars

\* a fit run has completed two train epochs of two steps and evaluate epochs
\* of two steps in between
WitnessC16 ==
    /\ cfg.entry_point = "FIT"
    /\ train_progress.num_epochs_completed = 2
    /\ train_progress.num_steps_completed = 4
    /\ train_progress.num_steps_completed_in_epoch = 0
    /\ eval_progress.num_epochs_completed >= 2
    /\ eval_progress.num_steps_completed = 2 * eval_progress.num_epochs_completed
    /\ eval_progress.num_steps_completed_in_epoch = 0

\* positions inside _evaluate_impl
InEvaluateImpl ==
    {"eval_enter", "on_eval_start", "on_eval_epoch_start"} \cup AfterEpochStart

\* C17: the evaluate driver leaves the train phase alone.  No transition of
\* _evaluate_impl changes train_state's progress or step output, so from
\* entry to exit of every call, also one nested in a train epoch by
\* step-interleaved fit, they are what they were at entry.
TheoremC17 ==
    /\ [](pc \in InEvaluateImpl \ {"eval_enter"}
            => <<train_progress, train_step_output>> = obs.train_at_entry)
    /\ [][(pc \in InEvaluateImpl)
            => (train_progress' = train_progress
                /\ train_step_output' = train_step_output)]_vars

\* an evaluate epoch nested after the first step of a train epoch has counted
\* a step of its own and its epoch
WitnessC17 ==
    /\ cfg.entry_point = "FIT"
    /\ ret = "train_step"
    /\ pc = "on_eval_end"
    /\ train_progress.num_steps_completed_in_epoch = 1
    /\ obs.train_at_entry = <<train_progress, "None">>
    /\ StepsOfCall >= 1
    /\ eval_progress.num_epochs_completed = obs.epochs_at_entry + 1

\* C18: when an evaluate epoch has ended without an error, every callback
\* has seen as many on_eval_step_start as on_eval_step_end invocations, one
\* of each per step counted in the call, whether the step takes a batch or
\* the iterator.
CounterC18 ==
    (/\ obs.eval_calls > 0
     /\ obs.user_error = "none"
     /\ (pc \in {"on_eval_epoch_end", "on_eval_end"}
         \/ obs.eval_exit = "returned"))
    => /\ CountCalls("on_eval_step_start") = StepsOfCall * NumCallbacks
       /\ CountCalls("on_eval_step_end") = StepsOfCall * NumCallbacks

\* C18, for a unit whose step takes a batch: the counts agree.  For a unit
\* whose step takes the iterator the step-end callbacks still run once per
\* counted step, and the step-start callbacks once more when the step
\* function ended the epoch by StopIteration.
C18Batch ==
    (/\ obs.eval_calls > 0
     /\ obs.user_error = "none"
     /\ (pc \in {"on_eval_epoch_end", "on_eval_end"}
         \/ obs.eval_exit = "returned"))
    => /\ CountCalls("on_eval_step_end") = StepsOfCall * NumCallbacks
       /\ CountCalls("on_eval_step_start")
            = CountCalls("eval_step") * NumCallbacks
       /\ CountCalls("eval_step") \in {StepsOfCall, StepsOfCall + 1}
       /\ ~cfg.pass_data_iter_to_step
          => CountCalls("eval_step") = StepsOfCall

\* positions inside one iteration of the evaluate step loop
InEvalStep == {"on_eval_step_start", "eval_step", "on_eval_step_end"}

\* C19: an evaluate call obtains one iterator from its dataloader and draws
\* from it in sequence.  For a unit whose step takes a batch, while no user
\* code has raised, the batches pulled are the steps completed plus the one
\* being processed: when the step loop is left (by the cap, by a stop
\* request or by exhaustion) every batch pulled has been processed, and the
\* iterator stands right behind the last processed batch.
TheoremC19 ==
    /\ (obs.eval_calls > 0 /\ pc \in AfterEpochStart) => obs.iters = 1
    /\ obs.iters <= 1
    /\ (obs.eval_calls > 0 /\ ~cfg.pass_data_iter_to_step
        /\ obs.user_error = "none")
       => /\ pc \in InEvalStep
             => /\ obs.pulls = StepsOfCall + 1
                /\ eval_iter = obs.pulls
          /\ (pc \in {"eval_loop", "on_eval_epoch_end", "on_eval_end"}
              \/ obs.eval_exit = "returned")
             => /\ obs.pulls = StepsOfCall
                /\ eval_iter = StepsOfCall
          /\ obs.pulls <= cfg.eval_len
          /\ (cfg.max_eval_steps_per_epoch # None
              /\ pc \in AfterEpochStart \ {"on_eval_end"})
             => obs.in_epoch_at_entry + obs.pulls
                   <= cfg.max_eval_steps_per_epoch

\* an epoch capped at 1 step over 2 batches has left its loop with 1 batch
\* pulled and processed; the 2nd batch is still in the source
WitnessC19 ==
    /\ ~cfg.pass_data_iter_to_step
    /\ obs.user_error = "none"
    /\ pc = "on_eval_epoch_end"
    /\ cfg.eval_len = 2
    /\ cfg.max_eval_steps_per_epoch = 1
    /\ obs.pulls = 1
    /\ eval_iter = 1
    /\ StepsOfCall = 1
    /\ obs.iters = 1

\* what is left of an evaluate call whose step function raised on the k-th
\* step of the epoch: k - 1 steps in the epoch, the epoch not counted, no
\* step-end callback for that step, no epoch-end and no end hook
StepErrorLeaves ==
    /\ eval_progress.num_steps_completed_in_epoch = KthStep - 1
    /\ eval_progress.num_epochs_completed = obs.epochs_at_entry
    /\ CountCalls("on_eval_step_end")
         = (CountCalls("eval_step") - 1) * NumCallbacks
    /\ CountCalls("on_eval_epoch_end") = 0
    /\ CountCalls("on_eval_end") = 0
    /\ obs.eval_exit # "returned"

\* C20: from the moment the step function raises an error on the k-th step
\* of an evaluate epoch - while on_exception runs and after the call has
\* ended - num_steps_completed_in_epoch = k - 1, the epoch count is
\* unchanged, and neither the step-end callbacks of that step nor
\* on_eval_epoch_end nor on_eval_end are invoked.
CounterC20 ==
    obs.step_raised # "none" => StepErrorLeaves

\* C20, for every error of the step function but a StopIteration, which the
\* step loop takes for the end of the data: the state is left as claimed,
\* and evaluate() ends by the on_exception hooks and the re-raise.
C20Exception ==
    obs.step_raised = "Exception"
    => /\ StepErrorLeaves
       /\ pc # "done" => pc \in {"on_exception", "propagate", "train_unwind"}
       /\ (pc = "done" /\ cfg.entry_point = "EVALUATE")
          => (result = "raised" /\ OnExceptionRan)

====
